---- MODULE Spec2Model ----
(***************************************************************************)
(* Model of src/src/App.tsx: the App component's page-level state (user,   *)
(* repos), the fetchData effect that fills it with two sequential GitHub   *)
(* requests, the aggregatedSkills memo and the finalSkills list rendered   *)
(* in the skills section.                                                  *)
(***************************************************************************)
EXTENDS Integers, Sequences, FiniteSets, TLC

VARIABLES
    pc,               \* position of the fetchData coroutine
    user,             \* useState<GitHubUser | null>
    repos,            \* useState<GitHubRepo[]>
    userResponse,     \* promise state of the profile fetch()
    userJson,         \* promise state of userResponse.json()
    reposResponse,    \* promise state of the repository fetch()
    reposJson,        \* promise state of reposResponse.json()
    data,             \* the parsed repository body (const data, line 93)
    userRequests,     \* number of profile fetch() calls issued
    reposRequests,    \* number of repository fetch() calls issued
    setUserCalls,     \* number of setUser calls
    setReposCalls,    \* number of setRepos calls
    console,          \* console.error messages, in order
    aggregatedSkills  \* the useMemo value computed from repos

vars == <<pc, user, repos, userResponse, userJson, reposResponse, reposJson,
          data, userRequests, reposRequests, setUserCalls, setReposCalls,
          console, aggregatedSkills>>

(***************************************************************************)
(* Bounds of the explored inputs.                                          *)
(***************************************************************************)
MaxFetched == 7

MaxStars == 1

MaxSkillRepos == 2

(***************************************************************************)
(* Values.                                                                 *)
(***************************************************************************)
\* JavaScript null for the user state
Null == [null |-> TRUE]

\* repo.language is a string or null: <<>> is null, <<s>> is the string s
NullLanguage == <<>>

Min(a, b) == IF a <= b THEN a ELSE b

GitHubUser == { [name |-> "Sohel", bio |-> "Frontend developer"],
                [name |-> "Octo", bio |-> "Builds things"] }

GitHubRepo(id, stars, language, topics) ==
    [id |-> id, stargazers_count |-> stars, language |-> language, topics |-> topics]

\* keys of skillIconMap in declaration order
skillIconMap ==
    << "JavaScript", "TypeScript", "React", "Node.js", "TailwindCSS",
       "PostgreSQL", "HTML5", "Git", "Python" >>

SkillIconNames == { skillIconMap[i] : i \in 1..Len(skillIconMap) }

\* number of repositories kept by slice(0, 6)
TopCount == 6

(***************************************************************************)
(* Response bodies the repository request can deliver.                     *)
(***************************************************************************)
NoData == [kind |-> "none"]

\* a parsed body that is not an array, e.g. { message: "Not Found" }
ErrorObject == [kind |-> "object"]

ArrayBody(items) == [kind |-> "array", items |-> items]

\* arrays of up to MaxFetched repositories with every star assignment
StarArrays ==
    UNION { { [i \in 1..n |-> GitHubRepo(i, f[i], NullLanguage, <<>>)] :
                f \in [1..n -> 0..MaxStars] } : n \in 0..MaxFetched }

LanguagePool == { NullLanguage, <<"Go">>, <<"Python">> }

TopicPool == { <<>>, <<"cli">>, <<"constructor">>, <<"Go", "cli">> }

\* language/topic shapes whose names stay few
SkillShapes == LanguagePool \X TopicPool

\* shapes that cover the whole icon table
TableShapes == { <<NullLanguage, skillIconMap>>,
                 <<(<<"__proto__">>), <<>> >>,
                 <<(<<"TypeScript">>), <<"React">> >> }

ShapeArrays(shapes) ==
    UNION { { [i \in 1..n |-> GitHubRepo(i, 0, f[i][1], f[i][2])] :
                f \in [1..n -> shapes] } : n \in 0..MaxSkillRepos }

RepoArrays == StarArrays \cup ShapeArrays(SkillShapes) \cup ShapeArrays(TableShapes)

ReposBodies == { ArrayBody(items) : items \in RepoArrays } \cup { ErrorObject }

(***************************************************************************)
(* Array.prototype.sort and slice as used on the repository array.         *)
(***************************************************************************)
\* (a, b) => b.stargazers_count - a.stargazers_count
CompareStars(a, b) == b.stargazers_count - a.stargazers_count

\* Array.prototype.sort is stable: equal elements keep their input order
SortByStars(items) ==
    LET n == Len(items)
        Before(i, j) == \/ CompareStars(items[i], items[j]) < 0
                        \/ CompareStars(items[i], items[j]) = 0 /\ i < j
        Rank(i) == 1 + Cardinality({ j \in 1..n : j # i /\ Before(j, i) })
    IN  [r \in 1..n |-> items[CHOOSE i \in 1..n : Rank(i) = r]]

\* Array.prototype.slice(start, end) for 0 <= start <= end
Slice(s, start, end) == SubSeq(s, start + 1, Min(end, Len(s)))

(***************************************************************************)
(* JavaScript values stored in skillCounts.  skillCounts is a plain object *)
(* literal, so a key that is not an own property is looked up on           *)
(* Object.prototype.  A value is tagged with its type: a number n, or the  *)
(* string that results from appending n characters "1" to the text of a    *)
(* function or object.                                                     *)
(***************************************************************************)
Number(n) == [type |-> "number", n |-> n]

String(n) == [type |-> "string", n |-> n]

Undefined == [type |-> "undefined", n |-> 0]

Function == [type |-> "function", n |-> 0]

Object == [type |-> "object", n |-> 0]

\* writable function-valued data properties of Object.prototype
ObjectPrototypeFunctions ==
    { "constructor", "toString", "valueOf", "hasOwnProperty", "isPrototypeOf",
      "propertyIsEnumerable", "toLocaleString" }

\* if (repo.language): null and "" are falsy
Truthy(language) == language # NullLanguage /\ language[1] # ""

\* skillCounts is the sequence of its own properties in insertion order
HasOwn(skillCounts, k) == \E i \in 1..Len(skillCounts) : skillCounts[i].name = k

\* skillCounts[k]
Get(skillCounts, k) ==
    IF HasOwn(skillCounts, k)
    THEN skillCounts[CHOOSE i \in 1..Len(skillCounts) : skillCounts[i].name = k].count
    ELSE IF k \in ObjectPrototypeFunctions THEN Function
    ELSE IF k = "__proto__" THEN Object
    ELSE Undefined

\* v || 0
OrZero(v) == IF v = Undefined \/ v = Number(0) THEN Number(0) ELSE v

\* v + 1: numeric addition, or string concatenation for a non-number
PlusOne(v) ==
    IF v.type = "number" THEN Number(v.n + 1)
    ELSE IF v.type = "string" THEN String(v.n + 1)
    ELSE String(1)

\* skillCounts[k] = v; the __proto__ setter ignores a value that is neither
\* an object nor null
Put(skillCounts, k, v) ==
    IF k = "__proto__" THEN skillCounts
    ELSE IF HasOwn(skillCounts, k)
    THEN [i \in 1..Len(skillCounts) |->
            IF skillCounts[i].name = k
            THEN [name |-> k, count |-> v] ELSE skillCounts[i]]
    ELSE Append(skillCounts, [name |-> k, count |-> v])

\* skillCounts[k] = (skillCounts[k] || 0) + 1
Increment(skillCounts, k) == Put(skillCounts, k, PlusOne(OrZero(Get(skillCounts, k))))

RECURSIVE CountTopics(_, _, _)
\* repo.topics.forEach((topic) => ...), from topic j on
CountTopics(skillCounts, topics, j) ==
    IF j > Len(topics) THEN skillCounts
    ELSE CountTopics(Increment(skillCounts, topics[j]), topics, j + 1)

\* the body of repos.forEach for one repository
CountRepo(skillCounts, repo) ==
    CountTopics(IF Truthy(repo.language)
                THEN Increment(skillCounts, repo.language[1])
                ELSE skillCounts,
                repo.topics, 1)

RECURSIVE CountRepos(_, _, _)
\* repos.forEach((repo) => ...), from repository i on
CountRepos(skillCounts, list, i) ==
    IF i > Len(list) THEN skillCounts
    ELSE CountRepos(CountRepo(skillCounts, list[i]), list, i + 1)

\* Object.entries(skillCounts).map(([name, count]) => ({ name, count }));
\* no key of the explored inputs is an integer index, so the order is the
\* insertion order
SkillEntries(list) == CountRepos(<<>>, list, 1)

\* (a, b) => b.count - a.count; a non-numeric string operand gives NaN,
\* which sort treats as +0
CompareCount(a, b) ==
    IF a.count.type = "number" /\ b.count.type = "number"
    THEN b.count.n - a.count.n
    ELSE 0

\* whether CompareCount orders the entries consistently
ConsistentComparator(entries) ==
    \A i, j, k \in 1..Len(entries) :
        (CompareCount(entries[i], entries[j]) = 0 /\ CompareCount(entries[j], entries[k]) = 0)
            => CompareCount(entries[i], entries[k]) = 0

IndexPermutations(n) == { f \in [1..n -> 1..n] : \A i, j \in 1..n : i # j => f[i] # f[j] }

\* the results sort may produce: the stable order for a consistent
\* comparator, an implementation-defined order otherwise
SortByCount(entries) ==
    LET n == Len(entries)
        Before(i, j) == \/ CompareCount(entries[i], entries[j]) < 0
                        \/ CompareCount(entries[i], entries[j]) = 0 /\ i < j
        Rank(i) == 1 + Cardinality({ j \in 1..n : j # i /\ Before(j, i) })
    IN  IF ConsistentComparator(entries)
        THEN { [r \in 1..n |-> entries[CHOOSE i \in 1..n : Rank(i) = r]] }
        ELSE { [r \in 1..n |-> entries[f[r]]] : f \in IndexPermutations(n) }

\* the values the aggregatedSkills memo can take for a repository list
AggregatedSkills(list) == SortByCount(SkillEntries(list))

(***************************************************************************)
(* The skills section of the render.                                       *)
(***************************************************************************)
\* skillIconMap[name] || <FaCode />
IconOf(name) ==
    IF name \in SkillIconNames THEN <<"icon", name>>
    ELSE IF name \in ObjectPrototypeFunctions THEN <<"inherited", name>>
    ELSE IF name = "__proto__" THEN <<"inherited", name>>
    ELSE <<"icon", "FaCode">>

mostUsedSkills ==
    [i \in 1..Len(aggregatedSkills) |->
        [name |-> aggregatedSkills[i].name, icon |-> IconOf(aggregatedSkills[i].name)]]

remainingSkills ==
    LET aggregatedSet == { aggregatedSkills[i].name : i \in 1..Len(aggregatedSkills) }
        entry(i) == [name |-> skillIconMap[i], icon |-> <<"icon", skillIconMap[i]>>]
    IN  SelectSeq([i \in 1..Len(skillIconMap) |-> entry(i)],
                  LAMBDA e : e.name \notin aggregatedSet)

finalSkills == mostUsedSkills \o remainingSkills

\* {user ? user.name : "Sohel Ansari"}
HeroName == IF user # Null THEN user.name ELSE "Sohel Ansari"

\* {user ? user.bio : "I'm a frontend developer ..."}; the placeholder is
\* abbreviated to its first words
AboutText == IF user # Null THEN user.bio ELSE "I'm a frontend developer"

(***************************************************************************)
(* fetchData.                                                              *)
(***************************************************************************)
TypeOK ==
    /\ pc \in { "mount", "awaitUserFetch", "awaitUserJson", "awaitReposFetch",
                "awaitReposJson", "done", "rejected" }
    /\ user \in GitHubUser \cup { Null }
    /\ userResponse \in { "unsent", "pending", "ok", "notOk", "rejected" }
    /\ reposResponse \in { "unsent", "pending", "ok", "notOk", "rejected" }
    /\ userJson \in { "none", "pending", "resolved", "rejected" }
    /\ reposJson \in { "none", "pending", "resolved", "rejected" }
    /\ data \in ReposBodies \cup { NoData }
    /\ userRequests \in Nat /\ reposRequests \in Nat
    /\ setUserCalls \in Nat /\ setReposCalls \in Nat

\* useState(null), useState([]) and the first render, before the effect runs
Init ==
    /\ pc = "mount"
    /\ user = Null
    /\ repos = <<>>
    /\ userResponse = "unsent"
    /\ userJson = "none"
    /\ reposResponse = "unsent"
    /\ reposJson = "none"
    /\ data = NoData
    /\ userRequests = 0
    /\ reposRequests = 0
    /\ setUserCalls = 0
    /\ setReposCalls = 0
    /\ console = <<>>
    /\ aggregatedSkills \in AggregatedSkills(<<>>)

CatchRethrow(message) ==
    /\ console' = Append(console, message)
    /\ pc' = "rejected"

\* catch (err) { console.error("Unexpected error fetching GitHub data:", err) }
Catch(message) ==
    /\ console' = Append(console, message)
    /\ pc' = "done"

\* const reposResponse = await fetch(.../repos?per_page=6&sort=updated)
FetchRepos ==
    /\ reposResponse' = "pending"
    /\ reposRequests' = reposRequests + 1
    /\ pc' = "awaitReposFetch"

MountParallel ==
    /\ pc = "mount"
    /\ userResponse' = "pending"
    /\ userRequests' = userRequests + 1
    /\ reposResponse' = "pending"
    /\ reposRequests' = reposRequests + 1
    /\ pc' = "awaitUserFetch"
    /\ UNCHANGED <<user, repos, userJson, reposJson, data,
                   setUserCalls, setReposCalls, console, aggregatedSkills>>

\* useEffect(() => { fetchData() }, []) up to the first await
Mount ==
    /\ pc = "mount"
    /\ userResponse' = "pending"
    /\ userRequests' = userRequests + 1
    /\ pc' = "awaitUserFetch"
    /\ UNCHANGED <<user, repos, userJson, reposResponse, reposJson, data,
                   reposRequests, setUserCalls, setReposCalls, console,
                   aggregatedSkills>>

\* the profile fetch() rejects (network error)
UserFetchRejects ==
    /\ pc = "awaitUserFetch"
    /\ userResponse' = "rejected"
    /\ Catch("Unexpected error fetching GitHub data")
    /\ UNCHANGED <<user, repos, userJson, reposResponse, reposJson, data,
                   userRequests, reposRequests, setUserCalls, setReposCalls,
                   aggregatedSkills>>

UserFetchNotOkReturns ==
    /\ pc = "awaitUserFetch"
    /\ userResponse' = "notOk"
    /\ console' = Append(console, "GitHub user fetch error")
    /\ pc' = "done"
    /\ UNCHANGED <<user, repos, userJson, reposResponse, reposJson, data,
                   userRequests, reposRequests, setUserCalls, setReposCalls,
                   aggregatedSkills>>

UserFetchNotOkClears ==
    /\ pc = "awaitUserFetch"
    /\ userResponse' = "notOk"
    /\ console' = Append(console, "GitHub user fetch error")
    /\ setUserCalls' = setUserCalls + 1
    /\ user' = Null
    /\ FetchRepos
    /\ UNCHANGED <<repos, userJson, reposJson, data, userRequests,
                   setReposCalls, aggregatedSkills>>

\* the profile response arrives with !userResponse.ok
UserFetchNotOk ==
    /\ pc = "awaitUserFetch"
    /\ userResponse' = "notOk"
    /\ console' = Append(console, "GitHub user fetch error")
    /\ FetchRepos
    /\ UNCHANGED <<user, repos, userJson, reposJson, data, userRequests,
                   setUserCalls, setReposCalls, aggregatedSkills>>

\* the profile response arrives with userResponse.ok; json() is awaited
UserFetchOk ==
    /\ pc = "awaitUserFetch"
    /\ userResponse' = "ok"
    /\ userJson' = "pending"
    /\ pc' = "awaitUserJson"
    /\ UNCHANGED <<user, repos, reposResponse, reposJson, data, userRequests,
                   reposRequests, setUserCalls, setReposCalls, console,
                   aggregatedSkills>>

\* userResponse.json() resolves with some userData: setUser(userData), then
\* the second fetch
UserJsonResolves ==
    /\ pc = "awaitUserJson"
    /\ \E userData \in GitHubUser :
        /\ userJson' = "resolved"
        /\ user' = userData
        /\ setUserCalls' = setUserCalls + 1
        /\ FetchRepos
    /\ UNCHANGED <<repos, userResponse, reposJson, data, userRequests,
                   setReposCalls, console, aggregatedSkills>>

UserJsonRejectsContinues ==
    /\ pc = "awaitUserJson"
    /\ userJson' = "rejected"
    /\ console' = Append(console, "Unexpected error fetching GitHub data")
    /\ FetchRepos
    /\ UNCHANGED <<user, repos, userResponse, reposJson, data, userRequests,
                   setUserCalls, setReposCalls, aggregatedSkills>>

\* userResponse.json() rejects (body is not JSON)
UserJsonRejects ==
    /\ pc = "awaitUserJson"
    /\ userJson' = "rejected"
    /\ Catch("Unexpected error fetching GitHub data")
    /\ UNCHANGED <<user, repos, userResponse, reposResponse, reposJson, data,
                   userRequests, reposRequests, setUserCalls, setReposCalls,
                   aggregatedSkills>>

\* the repository fetch() rejects (network error)
ReposFetchRejects ==
    /\ pc = "awaitReposFetch"
    /\ reposResponse' = "rejected"
    /\ Catch("Unexpected error fetching GitHub data")
    /\ UNCHANGED <<user, repos, userResponse, userJson, reposJson, data,
                   userRequests, reposRequests, setUserCalls, setReposCalls,
                   aggregatedSkills>>

ReposFetchNotOkClearsUser ==
    /\ pc = "awaitReposFetch"
    /\ reposResponse' = "notOk"
    /\ console' = Append(console, "GitHub repos fetch error")
    /\ user' = Null
    /\ pc' = "done"
    /\ UNCHANGED <<repos, userResponse, userJson, reposJson, data,
                   userRequests, reposRequests, setUserCalls, setReposCalls,
                   aggregatedSkills>>

\* the repository response arrives with !reposResponse.ok
ReposFetchNotOk ==
    /\ pc = "awaitReposFetch"
    /\ reposResponse' = "notOk"
    /\ console' = Append(console, "GitHub repos fetch error")
    /\ pc' = "done"
    /\ UNCHANGED <<user, repos, userResponse, userJson, reposJson, data,
                   userRequests, reposRequests, setUserCalls, setReposCalls,
                   aggregatedSkills>>

\* the repository response arrives with reposResponse.ok; json() is awaited
ReposFetchOk ==
    /\ pc = "awaitReposFetch"
    /\ reposResponse' = "ok"
    /\ reposJson' = "pending"
    /\ pc' = "awaitReposJson"
    /\ UNCHANGED <<user, repos, userResponse, userJson, data, userRequests,
                   reposRequests, setUserCalls, setReposCalls, console,
                   aggregatedSkills>>

TopReposUnsliced(items) == SortByStars(items)

\* (data as GitHubRepo[]).sort(...) followed by sorted.slice(0, 6)
TopRepos(items) == Slice(SortByStars(items), 0, TopCount)

NewReposPropagates(body) ==
    IF body.kind = "array" THEN TopRepos(body.items)
    ELSE << GitHubRepo(0, 0, NullLanguage, <<>>) >>

\* the argument of setRepos for a parsed body: the Array.isArray branches
NewRepos(body) ==
    IF body.kind = "array" THEN TopRepos(body.items) ELSE <<>>

\* reposResponse.json() resolves with some body: setRepos, then the re-render
\* recomputes the aggregatedSkills memo
ReposJsonResolves ==
    /\ pc = "awaitReposJson"
    /\ \E body \in ReposBodies :
        /\ reposJson' = "resolved"
        /\ data' = body
        /\ repos' = NewRepos(body)
        /\ setReposCalls' = setReposCalls + 1
        /\ console' = IF body.kind = "array" THEN console
                      ELSE Append(console, "Unexpected response from GitHub API")
        /\ aggregatedSkills' \in AggregatedSkills(repos')
        /\ pc' = "done"
    /\ UNCHANGED <<user, userResponse, userJson, reposResponse, userRequests,
                   reposRequests, setUserCalls>>

\* reposResponse.json() rejects (body is not JSON)
ReposJsonRejects ==
    /\ pc = "awaitReposJson"
    /\ reposJson' = "rejected"
    /\ Catch("Unexpected error fetching GitHub data")
    /\ UNCHANGED <<user, repos, userResponse, userJson, reposResponse, data,
                   userRequests, reposRequests, setUserCalls, setReposCalls,
                   aggregatedSkills>>

Next ==
    \/ Mount
    \/ UserFetchRejects
    \/ UserFetchNotOk
    \/ UserFetchOk
    \/ UserJsonResolves
    \/ UserJsonRejects
    \/ ReposFetchRejects
    \/ ReposFetchNotOk
    \/ ReposFetchOk
    \/ ReposJsonResolves
    \/ ReposJsonRejects

Spec == Init /\ [][Next]_vars

\* every issued request eventually resolves or rejects
FairSpec == Spec /\ WF_vars(Next)

(***************************************************************************)
(* Properties.                                                             *)
(***************************************************************************)
UserInFlight == userResponse = "pending" \/ userJson = "pending"

ReposInFlight == reposResponse = "pending" \/ reposJson = "pending"

\* every element of repos is an element of the parsed array
FromArray ==
    \A k \in 1..Len(repos) :
        /\ data.kind = "array"
        /\ \E j \in 1..Len(data.items) : repos[k] = data.items[j]

\* names observed as a primary language or as a topic
ObservedNames(list) ==
    { list[i].language[1] : i \in { r \in 1..Len(list) : list[r].language # NullLanguage } }
        \cup UNION { { list[i].topics[j] : j \in 1..Len(list[i].topics) } : i \in 1..Len(list) }

\* repositories whose language is name, plus topic occurrences of name
Occurrences(name, list) ==
    Cardinality({ i \in 1..Len(list) : list[i].language = <<name>> })
    + Cardinality({ p \in UNION { { <<i, j>> : j \in 1..Len(list[i].topics) } : i \in 1..Len(list) } :
                      list[p[1]].topics[p[2]] = name })

\* C1: when the repository request succeeds with an array of n entries, repos
\* is the min(n, 6) entries of that array with the highest star counts, in
\* non-increasing star order; repos never has more than 6 entries.
TopSixByStars ==
    /\ Len(repos) <= 6
    /\ data.kind = "array" =>
        LET items == data.items
            n == Len(items)
            kept == { repos[k].id : k \in 1..Len(repos) }
        IN  /\ Len(repos) = Min(n, 6)
            /\ \A k \in 1..Len(repos) : repos[k].id \in 1..n /\ repos[k] = items[repos[k].id]
            /\ Cardinality(kept) = Len(repos)
            /\ \A k \in 1..(Len(repos) - 1) :
                   repos[k].stargazers_count >= repos[k + 1].stargazers_count
            /\ \A j \in (1..n) \ kept : \A k \in 1..Len(repos) :
                   items[j].stargazers_count <= repos[k].stargazers_count

\* more than 6 entries arrived, out of star order, and a lower one was dropped
TopSixByStarsWitness ==
    /\ pc = "done"
    /\ data.kind = "array"
    /\ Len(data.items) > 6
    /\ Len(repos) = 6
    /\ data.items[1].stargazers_count < data.items[7].stargazers_count
    /\ repos[1].id = 7

\* C2: a success response whose parsed body is not an array leaves repos the
\* empty list; repos is always a list whose elements come from a parsed array.
NotArrayGivesEmpty ==
    /\ data.kind = "object" => repos = <<>>
    /\ DOMAIN repos = 1..Len(repos)
    /\ FromArray

NotArrayGivesEmptyWitness ==
    /\ pc = "done"
    /\ reposResponse = "ok"
    /\ reposJson = "resolved"
    /\ data = ErrorObject
    /\ setReposCalls = 1

\* C3: after a non-2xx profile response the repository request is still
\* issued, the profile stays null (placeholder text is rendered), and a
\* successful array response populates repos.
ProfileFailureStillLoadsRepos ==
    userResponse = "notOk" =>
        /\ reposRequests = 1
        /\ user = Null
        /\ HeroName = "Sohel Ansari"
        /\ AboutText = "I'm a frontend developer"
        /\ (pc = "done" /\ reposJson = "resolved" /\ data.kind = "array") =>
              /\ Len(repos) = Min(Len(data.items), 6)
              /\ FromArray

ProfileFailureStillLoadsReposWitness ==
    /\ userResponse = "notOk"
    /\ pc = "done"
    /\ data.kind = "array"
    /\ Len(repos) > 0
    /\ user = Null

\* C4: the final skill list is at least as long as the number of distinct
\* language-or-topic names observed, and every skillIconMap name appears in it
\* exactly once.
FinalSkillsCoverTable ==
    /\ Len(finalSkills) >= Cardinality(ObservedNames(repos))
    /\ \A name \in SkillIconNames :
           Cardinality({ i \in 1..Len(finalSkills) : finalSkills[i].name = name }) = 1

\* C5: aggregatedSkills has exactly one entry per observed name, its count is
\* the number of repositories with that language plus the topic occurrences
\* of that name, and the entries are in non-increasing count order.
AggregatedCountsExact ==
    /\ { aggregatedSkills[i].name : i \in 1..Len(aggregatedSkills) } = ObservedNames(repos)
    /\ Len(aggregatedSkills) = Cardinality(ObservedNames(repos))
    /\ \A i \in 1..Len(aggregatedSkills) :
           aggregatedSkills[i].count = Number(Occurrences(aggregatedSkills[i].name, repos))
    /\ \A i \in 1..(Len(aggregatedSkills) - 1) :
           aggregatedSkills[i].count.n >= aggregatedSkills[i + 1].count.n

\* C6: the two requests are never in flight together, and the repository
\* request is issued only after the profile response was received and, on
\* success, its body parsed and the profile set.
SequentialRequests ==
    /\ ~(UserInFlight /\ ReposInFlight)
    /\ reposRequests > 0 =>
        /\ userResponse \in { "ok", "notOk" }
        /\ userResponse = "ok" => (userJson = "resolved" /\ user # Null /\ setUserCalls = 1)

SequentialRequestsWitness ==
    /\ reposResponse = "pending"
    /\ userJson = "resolved"
    /\ user # Null

\* C7 (as stated): when fetchData has finished, each of user and repos has
\* been written exactly once.
WrittenExactlyOnce ==
    pc = "done" => (setUserCalls = 1 /\ setReposCalls = 1)

\* C7 (amended): each of user and repos is written at most once, only by
\* fetchData, and exactly when the body of its successful response parsed.
WrittenAtMostOnce ==
    /\ setUserCalls <= 1
    /\ setReposCalls <= 1
    /\ setUserCalls = 1 <=> userJson = "resolved"
    /\ setReposCalls = 1 <=> reposJson = "resolved"
    /\ user # Null => setUserCalls = 1
    /\ repos # <<>> => setReposCalls = 1

WrittenAtMostOnceWitness ==
    /\ pc = "done"
    /\ userResponse = "notOk"
    /\ setUserCalls = 0
    /\ setReposCalls = 1

\* C8: a failure status leaves the corresponding state at its previous value
\* (profile null, repos empty) and does not change the other piece of state.
FailureLeavesStateUnchanged ==
    /\ [](userResponse = "notOk" => user = Null)
    /\ [](reposResponse = "notOk" => repos = <<>>)
    /\ [][ ( \/ userResponse # "notOk" /\ userResponse' = "notOk"
             \/ reposResponse # "notOk" /\ reposResponse' = "notOk" )
           => (user' = user /\ repos' = repos) ]_vars

FailureLeavesStateUnchangedWitness ==
    /\ reposResponse = "notOk"
    /\ user # Null
    /\ repos = <<>>
    /\ pc = "done"

\* C9: given that every issued request resolves or rejects, fetchData
\* finishes without an uncaught error, and neither request is issued twice.
FetchTerminatesOnce ==
    /\ <>(pc = "done")
    /\ [](pc # "rejected" /\ userRequests <= 1 /\ reposRequests <= 1)

FetchTerminatesOnceWitness ==
    /\ pc = "done"
    /\ reposJson = "rejected"
    /\ userRequests = 1
    /\ reposRequests = 1

\* C10: when the profile fetch or the parse of its body throws, the repository
\* request is never issued and repos stays empty; a parse error also leaves
\* the profile null.
ProfileThrowStopsFetch ==
    (userResponse = "rejected" \/ userJson = "rejected") =>
        /\ reposRequests = 0
        /\ reposResponse = "unsent"
        /\ repos = <<>>
        /\ pc = "done"
        /\ userJson = "rejected" => user = Null

ProfileThrowStopsFetchWitness ==
    /\ userResponse = "ok"
    /\ userJson = "rejected"
    /\ pc = "done"

====
